---- MODULE Spec2Model ----
(***************************************************************************)
(* TexPack layout engine (src/layouts.py): the shared driver Layout.add    *)
(* and the Shelf, Stack and MaxRects strategies, as a state machine.       *)
(*                                                                         *)
(* One behaviour is the life of one layout instance on one sheet: the      *)
(* sheet (size, rotate) and the strategy are fixed at construction, then   *)
(* the caller issues add and clear calls.  Layout.add is followed through  *)
(* its loop: one step per get_best call and one per place call.            *)
(***************************************************************************)
EXTENDS Integers, Sequences, FiniteSets, TLC

\* Bounds of the model.
MaxBin == 3        \* Spec: sheet.size components range over 1..MaxBin
MaxSprites == 2    \* Spec: sprites handed to the instance over its whole life
WideBin == 4       \* SpecWide: sheet.size components range over 1..WideBin
WideSprites == 3   \* SpecWide: sprites handed to the instance over its whole life

VARIABLES
    kind,         \* which subclass of Layout the instance is
    maxw, maxh,   \* sheet.size
    rotate,       \* sheet.rotate
    size,         \* ShelfLayout.size / StackLayout.size
    shelves,      \* ShelfLayout.shelves: records [start, size, max]
    stacks,       \* StackLayout.stacks: records [start, size, max]
    free_rects,   \* MaxRectsLayout.free_rects: records [x, y, w, h]
    used_rects,   \* MaxRectsLayout.used_rects
    input,        \* the sprites as they were passed to the running add
    placed,       \* Layout.add: placed
    remain,       \* Layout.add: remain
    best,         \* the (i, pos, rot) that get_best returned
    pc,           \* position inside Layout.add
    result,       \* what the last place or StackLayout.add call did
    done,         \* the sprites placed since the last clear, as placed
    count         \* number of sprites handed over so far

vars == <<kind, maxw, maxh, rotate, size, shelves, stacks, free_rects,
          used_rects, input, placed, remain, best, pc, result, done, count>>

sheet == <<maxw, maxh, rotate>>
layout == <<size, shelves, stacks, free_rects, used_rects>>

None == [i |-> 0]

(***************************************************************************)
(* spritesheet.Rect and the sprites                                        *)
(***************************************************************************)

\* Rect(w, h, x=0, y=0)
Rect(w, h, x, y) == [x |-> x, y |-> y, w |-> w, h |-> h]

\* A sprite as the caller constructs it: unplaced, not rotated.  iw, ih
\* remember the dimensions it was constructed with.
Sprite(id, w, h) ==
    [id |-> id, x |-> 0, y |-> 0, w |-> w, h |-> h, rotated |-> FALSE,
     iw |-> w, ih |-> h]

\* rotate(): swaps w and h and toggles rotated
Rotate(s) == [s EXCEPT !.w = s.h, !.h = s.w, !.rotated = ~s.rotated]

intersects(a, b) ==
    /\ a.x < b.x + b.w
    /\ b.x < a.x + a.w
    /\ a.y < b.y + b.h
    /\ b.y < a.y + a.h

contains(a, b) ==
    /\ a.x <= b.x
    /\ a.y <= b.y
    /\ b.x + b.w <= a.x + a.w
    /\ b.y + b.h <= a.y + a.h

\* sheet.check: the rect lies inside the bin
check(r) ==
    /\ r.x >= 0
    /\ r.y >= 0
    /\ r.x + r.w <= maxw
    /\ r.y + r.h <= maxh

Min(a, b) == IF a < b THEN a ELSE b
Max(a, b) == IF a > b THEN a ELSE b

\* Pop as pop() without the index would do: the last entry goes.
PopLast(seq, i) == SubSeq(seq, 1, Len(seq) - 1)

\* Pop as a swap-remove would do: the last entry takes the place of entry i.
PopSwap(seq, i) ==
    [k \in 1..(Len(seq) - 1) |-> IF k = i THEN seq[Len(seq)] ELSE seq[k]]

\* list.pop(i) leaves the other entries in order
Pop(seq, i) == [k \in 1..(Len(seq) - 1) |-> IF k < i THEN seq[k] ELSE seq[k + 1]]

(***************************************************************************)
(* ShelfLayout                                                             *)
(***************************************************************************)

\* ShelfLayout.Shelf(start): a shelf with nothing on it
Shelf(start) == [start |-> start, size |-> 0, max |-> 0, rects |-> <<>>]

\* Shelf.place(rect): the sprite positioned at the end of the shelf
ShelfPlaceRect(shelf, rect) == [rect EXCEPT !.x = shelf.size, !.y = shelf.start]

\* Shelf.place(rect): the shelf after the sprite was put on it
ShelfPlaceShelf(shelf, rect) ==
    [shelf EXCEPT !.rects = Append(@, Rect(rect.w, rect.h, shelf.size, shelf.start)),
                  !.size = @ + rect.w,
                  !.max = IF @ < rect.h THEN rect.h ELSE @]

\* The loop over self.shelves in get_best, from shelf k on, for one sprite.
\* acc = [spr, k, score]: the sprite as rotated so far and best_shelf
\* (k = 0 stands for None, otherwise the index of the shelf).
RECURSIVE ShelfScan(_, _)
ShelfScan(acc, k) ==
    IF k > Len(shelves) THEN acc
    ELSE LET shelf == shelves[k]
             spr == IF rotate /\ acc.spr.w > acc.spr.h /\ acc.spr.w <= shelf.max
                    THEN Rotate(acc.spr) ELSE acc.spr
             fits == shelf.size + spr.w <= maxw /\ spr.h <= shelf.max
             score == (maxw - shelf.size - spr.w) * shelf.max
                      + spr.w * (shelf.max - spr.h)
             better == fits /\ (acc.k = 0 \/ score < acc.score)
         IN  ShelfScan([spr |-> spr,
                        k |-> IF better THEN k ELSE acc.k,
                        score |-> IF better THEN score ELSE acc.score], k + 1)

\* ShelfStep with the rotation for a new shelf not asking sheet.rotate.
ShelfStepAlways(acc, i) ==
    LET spr0 == acc.sprites[i]
        scan == ShelfScan([spr |-> spr0, k |-> 0, score |-> 0], 1)
        spr1 == IF scan.k = 0 /\ scan.spr.h > scan.spr.w
                THEN Rotate(scan.spr) ELSE scan.spr
        noroom == scan.k = 0 /\ Len(shelves) > 0 /\ size + spr1.h > maxh
        score == IF scan.k = 0 THEN (maxw - spr1.w) * spr1.h ELSE scan.score
        pos == IF scan.k = 0 THEN [new |-> TRUE, k |-> 0, shelf |-> Shelf(size)]
               ELSE [new |-> FALSE, k |-> scan.k, shelf |-> shelves[scan.k]]
        sprites1 == [acc.sprites EXCEPT ![i] = spr1]
    IN  IF spr0.w > maxw \/ spr0.h > maxh THEN acc
        ELSE IF noroom THEN [acc EXCEPT !.sprites = sprites1]
        ELSE IF ~acc.has \/ score < acc.score
             THEN [sprites |-> sprites1,
                   best |-> [i |-> i, pos |-> pos, rot |-> spr1.rotated],
                   has |-> TRUE, score |-> score]
             ELSE [acc EXCEPT !.sprites = sprites1]

\* One iteration of the loop over sprites in ShelfLayout.get_best.
\* acc = [sprites, best, has, score]: the list with the rotations applied so
\* far, best, and best_score (has = FALSE stands for None).
ShelfStep(acc, i) ==
    LET spr0 == acc.sprites[i]
        scan == ShelfScan([spr |-> spr0, k |-> 0, score |-> 0], 1)
        spr1 == IF scan.k = 0 /\ rotate /\ scan.spr.h > scan.spr.w
                THEN Rotate(scan.spr) ELSE scan.spr
        noroom == scan.k = 0 /\ Len(shelves) > 0 /\ size + spr1.h > maxh
        score == IF scan.k = 0 THEN (maxw - spr1.w) * spr1.h ELSE scan.score
        pos == IF scan.k = 0 THEN [new |-> TRUE, k |-> 0, shelf |-> Shelf(size)]
               ELSE [new |-> FALSE, k |-> scan.k, shelf |-> shelves[scan.k]]
        sprites1 == [acc.sprites EXCEPT ![i] = spr1]
    IN  IF spr0.w > maxw \/ spr0.h > maxh THEN acc
        ELSE IF noroom THEN [acc EXCEPT !.sprites = sprites1]
        ELSE IF ~acc.has \/ score < acc.score
             THEN [sprites |-> sprites1,
                   best |-> [i |-> i, pos |-> pos, rot |-> spr1.rotated],
                   has |-> TRUE, score |-> score]
             ELSE [acc EXCEPT !.sprites = sprites1]

RECURSIVE ShelfLoop(_, _)
ShelfLoop(acc, i) ==
    IF i > Len(acc.sprites) THEN acc ELSE ShelfLoop(ShelfStep(acc, i), i + 1)

\* ShelfLayout.get_best(sprites): [sprites, best, ...]
ShelfBest(sprites) ==
    ShelfLoop([sprites |-> sprites, best |-> None, has |-> FALSE, score |-> 0], 1)

\* ShelfLayout.place(sprite, shelf, rotate): the sprite afterwards
ShelfPlaced(sprite, pos, rot) ==
    LET spr == IF sprite.rotated # rot THEN Rotate(sprite) ELSE sprite
    IN  ShelfPlaceRect(pos.shelf, spr)

\* ShelfLayout.place(sprite, shelf, rotate): self.shelves afterwards
ShelfPlacedShelves(sprite, pos, rot) ==
    LET spr == IF sprite.rotated # rot THEN Rotate(sprite) ELSE sprite
        shelf == ShelfPlaceShelf(pos.shelf, spr)
    IN  IF pos.new THEN Append(shelves, shelf)
        ELSE [shelves EXCEPT ![pos.k] = shelf]

\* ShelfLayout.place(sprite, shelf, rotate): self.size afterwards
ShelfPlacedSize(sprite, pos, rot) ==
    LET spr == IF sprite.rotated # rot THEN Rotate(sprite) ELSE sprite
        shelf == ShelfPlaceShelf(pos.shelf, spr)
    IN  Max(size, shelf.start + shelf.max)

(***************************************************************************)
(* MaxRectsLayout                                                          *)
(***************************************************************************)

\* One iteration of the loop over self.free_rects in search.
\* acc = [best, has, bssf, blsf, rotate] (has = FALSE: best is None).
SearchStep(acc, free, rect) ==
    LET dx1 == free.w - rect.w
        dy1 == free.h - rect.h
        ssf1 == Min(dx1, dy1)
        lsf1 == Max(dx1, dy1)
        take1 == /\ free.w >= rect.w /\ free.h >= rect.h
                 /\ (~acc.has \/ ssf1 < acc.bssf
                     \/ (ssf1 = acc.bssf /\ lsf1 < acc.blsf))
        acc1 == IF take1
                THEN [acc EXCEPT !.best = Rect(rect.w, rect.h, free.x, free.y),
                                 !.has = TRUE, !.bssf = ssf1, !.blsf = lsf1]
                ELSE acc
        dx2 == free.w - rect.h
        dy2 == free.h - rect.w
        ssf2 == Min(dx2, dy2)
        lsf2 == Max(dx2, dy2)
        take2 == /\ rotate /\ free.h >= rect.w /\ free.w >= rect.h
                 /\ (~acc1.has \/ ssf2 < acc1.bssf
                     \/ (ssf2 = acc1.bssf /\ lsf2 < acc1.blsf))
    IN  IF take2
        THEN [best |-> Rect(rect.h, rect.w, free.x, free.y), has |-> TRUE,
              bssf |-> ssf2, blsf |-> lsf2, rotate |-> TRUE]
        ELSE acc1

RECURSIVE SearchLoop(_, _, _)
SearchLoop(acc, k, rect) ==
    IF k > Len(free_rects) THEN acc
    ELSE SearchLoop(SearchStep(acc, free_rects[k], rect), k + 1, rect)

\* MaxRectsLayout.search(rect): [best, has, bssf, blsf, rotate]
search(rect) ==
    SearchLoop([best |-> Rect(0, 0, 0, 0), has |-> FALSE, bssf |-> 0, blsf |-> 0,
                rotate |-> FALSE], 1, rect)

\* MaxRectsStep comparing the short side fit only, without the long side.
MaxRectsStepShort(acc, i) ==
    LET spr0 == acc.sprites[i]
        found == search(spr0)
        spr1 == IF found.rotate THEN Rotate(spr0) ELSE spr0
        sprites1 == [acc.sprites EXCEPT ![i] = spr1]
    IN  IF ~(found.has /\ check(found.best)) THEN acc
        ELSE IF found.rotate /\ ~rotate THEN acc
        ELSE IF ~acc.has \/ found.bssf < acc.bssf
             THEN [sprites |-> sprites1,
                   best |-> [i |-> i, pos |-> found.best, rot |-> spr1.rotated],
                   has |-> TRUE, bssf |-> found.bssf, blsf |-> found.blsf]
             ELSE [acc EXCEPT !.sprites = sprites1]

\* MaxRectsStep that moves the sprite to the position search found.
MaxRectsStepMoves(acc, i) ==
    LET spr0 == acc.sprites[i]
        found == search(spr0)
        spr1 == IF found.rotate THEN Rotate(spr0) ELSE spr0
        sprites1 == [acc.sprites EXCEPT
                         ![i] = [spr1 EXCEPT !.x = found.best.x, !.y = found.best.y]]
    IN  IF ~(found.has /\ check(found.best)) THEN acc
        ELSE IF found.rotate /\ ~rotate THEN acc
        ELSE IF \/ ~acc.has
                \/ found.bssf < acc.bssf
                \/ (found.bssf = acc.bssf /\ found.blsf < acc.blsf)
             THEN [sprites |-> sprites1,
                   best |-> [i |-> i, pos |-> found.best, rot |-> spr1.rotated],
                   has |-> TRUE, bssf |-> found.bssf, blsf |-> found.blsf]
             ELSE [acc EXCEPT !.sprites = sprites1]

\* MaxRectsStep where a later sprite with an equal score replaces the best.
MaxRectsStepLast(acc, i) ==
    LET spr0 == acc.sprites[i]
        found == search(spr0)
        spr1 == IF found.rotate THEN Rotate(spr0) ELSE spr0
        sprites1 == [acc.sprites EXCEPT ![i] = spr1]
    IN  IF ~(found.has /\ check(found.best)) THEN acc
        ELSE IF found.rotate /\ ~rotate THEN acc
        ELSE IF \/ ~acc.has
                \/ found.bssf < acc.bssf
                \/ (found.bssf = acc.bssf /\ found.blsf <= acc.blsf)
             THEN [sprites |-> sprites1,
                   best |-> [i |-> i, pos |-> found.best, rot |-> spr1.rotated],
                   has |-> TRUE, bssf |-> found.bssf, blsf |-> found.blsf]
             ELSE [acc EXCEPT !.sprites = sprites1]

\* One iteration of the loop over sprites in MaxRectsLayout.get_best.
\* acc = [sprites, best, has, bssf, blsf].
MaxRectsStep(acc, i) ==
    LET spr0 == acc.sprites[i]
        found == search(spr0)
        spr1 == IF found.rotate THEN Rotate(spr0) ELSE spr0
        sprites1 == [acc.sprites EXCEPT ![i] = spr1]
    IN  IF ~(found.has /\ check(found.best)) THEN acc
        ELSE IF found.rotate /\ ~rotate THEN acc
        ELSE IF \/ ~acc.has
                \/ found.bssf < acc.bssf
                \/ (found.bssf = acc.bssf /\ found.blsf < acc.blsf)
             THEN [sprites |-> sprites1,
                   best |-> [i |-> i, pos |-> found.best, rot |-> spr1.rotated],
                   has |-> TRUE, bssf |-> found.bssf, blsf |-> found.blsf]
             ELSE [acc EXCEPT !.sprites = sprites1]

RECURSIVE MaxRectsLoop(_, _)
MaxRectsLoop(acc, i) ==
    IF i > Len(acc.sprites) THEN acc ELSE MaxRectsLoop(MaxRectsStep(acc, i), i + 1)

\* MaxRectsLayout.get_best(sprites): [sprites, best, ...]
MaxRectsBest(sprites) ==
    MaxRectsLoop([sprites |-> sprites, best |-> None, has |-> FALSE,
                  bssf |-> 0, blsf |-> 0], 1)

\* MaxRectsLayout.split(free, rect): its return value
SplitHit(free, rect) ==
    ~ \/ rect.x >= free.x + free.w
      \/ rect.x + rect.w <= free.x
      \/ rect.y >= free.y + free.h
      \/ rect.y + rect.h <= free.y

\* SplitNew without the sliver to the right of the sprite.
SplitNewNoRight(free, rect) ==
    LET overx == rect.x < free.x + free.w /\ rect.x + rect.w > free.x
        overy == rect.y < free.y + free.h /\ rect.y + rect.h > free.y
        top == IF overx /\ rect.y > free.y /\ rect.y < free.y + free.h
               THEN <<[free EXCEPT !.h = rect.y - free.y]>> ELSE <<>>
        bottom == IF overx /\ rect.y + rect.h < free.y + free.h
                  THEN <<[free EXCEPT !.y = rect.y + rect.h,
                                      !.h = free.y + free.h - (rect.y + rect.h)]>>
                  ELSE <<>>
        left == IF overy /\ rect.x > free.x /\ rect.x < free.x + free.w
                THEN <<[free EXCEPT !.w = rect.x - free.x]>> ELSE <<>>
    IN  IF SplitHit(free, rect) THEN top \o bottom \o left ELSE <<>>

\* MaxRectsLayout.split(free, rect): the rects it appends to free_rects
SplitNew(free, rect) ==
    LET overx == rect.x < free.x + free.w /\ rect.x + rect.w > free.x
        overy == rect.y < free.y + free.h /\ rect.y + rect.h > free.y
        top == IF overx /\ rect.y > free.y /\ rect.y < free.y + free.h
               THEN <<[free EXCEPT !.h = rect.y - free.y]>> ELSE <<>>
        bottom == IF overx /\ rect.y + rect.h < free.y + free.h
                  THEN <<[free EXCEPT !.y = rect.y + rect.h,
                                      !.h = free.y + free.h - (rect.y + rect.h)]>>
                  ELSE <<>>
        left == IF overy /\ rect.x > free.x /\ rect.x < free.x + free.w
                THEN <<[free EXCEPT !.w = rect.x - free.x]>> ELSE <<>>
        right == IF overy /\ rect.x + rect.w < free.x + free.w
                 THEN <<[free EXCEPT !.x = rect.x + rect.w,
                                     !.w = free.x + free.w - (rect.x + rect.w)]>>
                 ELSE <<>>
    IN  IF SplitHit(free, rect) THEN top \o bottom \o left \o right ELSE <<>>

\* SplitLoop that leaves the split entry in the list.
RECURSIVE SplitLoopKeep(_, _, _)
SplitLoopKeep(frees, i, sprite) ==
    IF i = 0 THEN frees
    ELSE LET free == frees[i]
             r == Rect(sprite.w, sprite.h, sprite.x, sprite.y)
         IN  IF intersects(free, r) /\ SplitHit(free, r)
             THEN SplitLoopKeep(frees \o SplitNew(free, r), i - 1, sprite)
             ELSE SplitLoopKeep(frees, i - 1, sprite)

\* The split loop of place: the entries that were in the list when the loop
\* began are visited from the last to the first; a split appends behind them.
RECURSIVE SplitLoop(_, _, _)
SplitLoop(frees, i, sprite) ==
    IF i = 0 THEN frees
    ELSE LET free == frees[i]
             r == Rect(sprite.w, sprite.h, sprite.x, sprite.y)
         IN  IF intersects(free, r) /\ SplitHit(free, r)
             THEN SplitLoop(Pop(frees \o SplitNew(free, r), i), i - 1, sprite)
             ELSE SplitLoop(frees, i - 1, sprite)

\* free1 != free2 on two entries of the list: Rect defines no comparison, so
\* two entries are unequal when they are two objects, which every two
\* positions of the list hold.
Differ(frees, i, j) == i # j

RECURSIVE PruneLoop(_, _)
PruneLoop(frees, j) ==
    IF j > Len(frees) THEN <<>>
    ELSE LET dominated == \E i \in 1..Len(frees) :
                              Differ(frees, i, j) /\ contains(frees[i], frees[j])
         IN  (IF dominated THEN <<>> ELSE <<frees[j]>>) \o PruneLoop(frees, j + 1)

\* Prune that drops nothing.
PruneNone(frees) == frees

\* The pruning of place: the list without the entries another entry contains
Prune(frees) == PruneLoop(frees, 1)

\* MaxRectsLayout.place, line 316: the sprite moved to the position
MaxRectsMoved(sprite, pos) == [sprite EXCEPT !.x = pos.x, !.y = pos.y]

\* MaxRectsLayout.place: its return value
MaxRectsPlaceOk(sprite, pos) == check(MaxRectsMoved(sprite, pos))

\* MaxRectsLayout.place: the sprite afterwards
MaxRectsPlaced(sprite, pos, rot) ==
    LET spr == MaxRectsMoved(sprite, pos)
    IN  IF ~check(spr) THEN spr
        ELSE IF spr.rotated # rot THEN Rotate(spr) ELSE spr

\* MaxRectsPlacedFree with the free list split before sheet.check is asked.
MaxRectsPlacedFreeEager(sprite, pos, rot) ==
    Prune(SplitLoop(free_rects, Len(free_rects), MaxRectsPlaced(sprite, pos, rot)))

\* MaxRectsLayout.place: self.free_rects afterwards
MaxRectsPlacedFree(sprite, pos, rot) ==
    IF ~MaxRectsPlaceOk(sprite, pos) THEN free_rects
    ELSE Prune(SplitLoop(free_rects, Len(free_rects),
                         MaxRectsPlaced(sprite, pos, rot)))

(***************************************************************************)
(* StackLayout                                                             *)
(***************************************************************************)

\* StackLayout.Stack(start): a stack with nothing on it
Stack(start) == [start |-> start, size |-> 0, max |-> 0, rects |-> <<>>]

\* Stack.place(rect): the sprite positioned at the end of the stack
StackPlaceRect(stack, rect) == [rect EXCEPT !.x = stack.start, !.y = stack.size]

\* Stack.place(rect): the stack after the sprite was put on it
StackPlaceStack(stack, rect) ==
    [stack EXCEPT !.rects = Append(@, Rect(rect.w, rect.h, stack.start, stack.size)),
                  !.size = @ + rect.h,
                  !.max = IF @ < rect.w THEN rect.w ELSE @]

\* The loop over self.stacks in StackLayout.add, from stack k on.
\* acc = [k, score, raised]: the chosen stack (0 = None), best, and whether
\* the evaluation of sh.max raised NameError.
RECURSIVE StackScan(_, _, _)
StackScan(acc, k, spr) ==
    IF k > Len(stacks) \/ acc.raised THEN acc
    ELSE LET st == stacks[k]
             fits == st.size + spr.h <= maxh /\ spr.w <= st.max
             score == (maxh - st.size - spr.h) * st.max + spr.h * (st.max - spr.w)
             better == fits /\ (acc.k = 0 \/ score < acc.score)
         IN  IF rotate /\ spr.h > spr.w THEN [acc EXCEPT !.raised = TRUE]
             ELSE StackScan([k |-> IF better THEN k ELSE acc.k,
                             score |-> IF better THEN score ELSE acc.score,
                             raised |-> FALSE], k + 1, spr)

\* StackLayout.add(spr): "NameError", "False" or "True"
StackResult(spr) ==
    LET scan == StackScan([k |-> 0, score |-> 0, raised |-> FALSE], 1, spr)
    IN  IF spr.w > maxw \/ spr.h > maxh THEN "False"
        ELSE IF scan.raised THEN "NameError"
        ELSE IF scan.k = 0 /\ Len(stacks) > 0 /\ size + spr.w > maxw THEN "False"
        ELSE "True"

\* StackLayout.add(spr) returning True: the stack the sprite goes on
StackChosen(spr) ==
    LET scan == StackScan([k |-> 0, score |-> 0, raised |-> FALSE], 1, spr)
    IN  IF scan.k = 0 THEN [k |-> Len(stacks) + 1, stack |-> Stack(size)]
        ELSE [k |-> scan.k, stack |-> stacks[scan.k]]

(***************************************************************************)
(* The instance and its calls                                              *)
(***************************************************************************)

Kinds == {"shelf", "stack", "maxrects"}
\* Width and height of the sprites: sides that fit every sheet, some sheets
\* in one orientation only, or none.
SprDims == {1, 2, 3}

\* The literal scenarios of the specification (S1..S4, S6): sheet and sprites.
Scenarios ==
    { [size |-> <<10, 10>>, rotate |-> FALSE, sprites |-> <<<<4, 3>>, <<4, 3>>, <<3, 4>>>>],
      [size |-> <<10, 10>>, rotate |-> FALSE,
       sprites |-> <<<<6, 6>>, <<4, 4>>, <<4, 6>>, <<6, 4>>>>],
      [size |-> <<10, 4>>, rotate |-> TRUE, sprites |-> <<<<4, 10>>>>],
      [size |-> <<5, 5>>, rotate |-> FALSE, sprites |-> <<<<6, 1>>, <<3, 3>>>>],
      [size |-> <<10, 10>>, rotate |-> FALSE, sprites |-> <<<<5, 5>>>>] }

IsScenario == \E sc \in Scenarios : sc.size = <<maxw, maxh>> /\ sc.rotate = rotate

\* Sequences of 1..n pairs <<w, h>> over SprDims
Lists(n) == UNION {[1..m -> SprDims \X SprDims] : m \in 1..n}

\* The argument lists a call of add is tried with, when the instance is
\* handed at most limit sprites
Inputs(limit) ==
    IF IsScenario
    THEN {sc.sprites : sc \in {t \in Scenarios : t.size = <<maxw, maxh>> /\ t.rotate = rotate}}
    ELSE Lists(limit - count)

Sprites(list) == [k \in 1..Len(list) |-> Sprite(k, list[k][1], list[k][2])]

\* Layout.__init__: clear() on the new instance; the sheet is one of the
\* scenarios' or has sides in 1..maxbin
InitOf(maxbin) ==
    /\ kind \in Kinds
    /\ \/ maxw \in 1..maxbin /\ maxh \in 1..maxbin /\ rotate \in BOOLEAN
       \/ \E sc \in Scenarios :
              maxw = sc.size[1] /\ maxh = sc.size[2] /\ rotate = sc.rotate
    /\ size = 0
    /\ shelves = <<>>
    /\ stacks = <<>>
    /\ free_rects = <<Rect(maxw, maxh, 0, 0)>>
    /\ used_rects = <<>>
    /\ input = <<>>
    /\ placed = <<>>
    /\ remain = <<>>
    /\ best = None
    /\ pc = "idle"
    /\ result = "None"
    /\ done = <<>>
    /\ count = 0

Idle == pc \in {"idle", "ret"}

\* Clear as a clear() that forgets to reset the free-space bookkeeping.
ClearKeeps ==
    /\ Idle
    /\ input' = <<>> /\ placed' = <<>> /\ remain' = <<>> /\ best' = None
    /\ pc' = "idle"
    /\ result' = "None"
    /\ done' = <<>>
    /\ UNCHANGED <<kind, sheet, layout, count>>

\* clear() of the three subclasses
Clear ==
    /\ Idle
    /\ size' = 0
    /\ shelves' = <<>>
    /\ stacks' = <<>>
    /\ free_rects' = <<Rect(maxw, maxh, 0, 0)>>
    /\ used_rects' = <<>>
    /\ input' = <<>> /\ placed' = <<>> /\ remain' = <<>> /\ best' = None
    /\ pc' = "idle"
    /\ result' = "None"
    /\ done' = <<>>
    /\ UNCHANGED <<kind, sheet, count>>

\* Layout.add(*sprites), lines 40-41
AddOf(limit) ==
    /\ Idle
    /\ kind \in {"shelf", "maxrects"}
    /\ count < limit
    /\ \E list \in Inputs(limit) :
           /\ input' = Sprites(list)
           /\ remain' = Sprites(list)
           /\ count' = IF IsScenario THEN limit ELSE count + Len(list)
    /\ placed' = <<>>
    /\ best' = None
    /\ pc' = "loop"
    /\ result' = "None"
    /\ UNCHANGED <<kind, sheet, layout, done>>

\* Layout.add, line 43 with remain empty, and line 50
AddReturn ==
    /\ pc = "loop"
    /\ remain = <<>>
    /\ pc' = "ret"
    /\ UNCHANGED <<kind, sheet, layout, input, placed, remain, best, result, done, count>>

\* Layout.add, line 44, on a ShelfLayout; i is None leads to the break of line 48
ShelfGetBest ==
    /\ pc = "loop"
    /\ remain # <<>>
    /\ kind = "shelf"
    /\ LET got == ShelfBest(remain)
       IN  /\ remain' = got.sprites
           /\ best' = got.best
           /\ pc' = IF got.best.i = 0 THEN "ret" ELSE "place"
    /\ UNCHANGED <<kind, sheet, layout, input, placed, result, done, count>>

\* Layout.add, lines 45-46, on a ShelfLayout
ShelfPlace ==
    /\ pc = "place"
    /\ kind = "shelf"
    /\ LET spr == ShelfPlaced(remain[best.i], best.pos, best.rot)
       IN  /\ placed' = Append(placed, spr)
           /\ done' = Append(done, spr)
    /\ remain' = Pop(remain, best.i)
    /\ shelves' = ShelfPlacedShelves(remain[best.i], best.pos, best.rot)
    /\ size' = ShelfPlacedSize(remain[best.i], best.pos, best.rot)
    /\ result' = "True"
    /\ pc' = "loop"
    /\ UNCHANGED <<kind, sheet, stacks, free_rects, used_rects, input, best, count>>

\* Layout.add, line 44, on a MaxRectsLayout
MaxRectsGetBest ==
    /\ pc = "loop"
    /\ remain # <<>>
    /\ kind = "maxrects"
    /\ LET got == MaxRectsBest(remain)
       IN  /\ remain' = got.sprites
           /\ best' = got.best
           /\ pc' = IF got.best.i = 0 THEN "ret" ELSE "place"
    /\ UNCHANGED <<kind, sheet, layout, input, placed, result, done, count>>

\* Layout.add, lines 45-48, on a MaxRectsLayout
MaxRectsPlace ==
    /\ pc = "place"
    /\ kind = "maxrects"
    /\ LET spr == MaxRectsPlaced(remain[best.i], best.pos, best.rot)
           ok == MaxRectsPlaceOk(remain[best.i], best.pos)
       IN  /\ placed' = IF ok THEN Append(placed, spr) ELSE placed
           /\ done' = IF ok THEN Append(done, spr) ELSE done
           /\ remain' = IF ok THEN Pop(remain, best.i)
                        ELSE [remain EXCEPT ![best.i] = spr]
           /\ result' = IF ok THEN "True" ELSE "False"
           /\ pc' = IF ok THEN "loop" ELSE "ret"
    /\ free_rects' = MaxRectsPlacedFree(remain[best.i], best.pos, best.rot)
    /\ UNCHANGED <<kind, sheet, size, shelves, stacks, used_rects, input, best, count>>

\* StackLayout.add(spr)
StackAddOf(limit) ==
    /\ Idle
    /\ kind = "stack"
    /\ count < limit
    /\ \E list \in Lists(1) :
           LET spr == Sprites(list)[1]
               res == StackResult(spr)
               at == StackChosen(spr)
               put == StackPlaceStack(at.stack, spr)
           IN  /\ input' = <<spr>>
               /\ result' = res
               /\ stacks' = IF res # "True" THEN stacks
                            ELSE IF at.k > Len(stacks) THEN Append(stacks, put)
                            ELSE [stacks EXCEPT ![at.k] = put]
               /\ size' = IF res # "True" THEN size ELSE Max(size, put.start + put.max)
               /\ done' = IF res # "True" THEN done
                          ELSE Append(done, StackPlaceRect(at.stack, spr))
    /\ count' = count + 1
    /\ pc' = "ret"
    /\ UNCHANGED <<kind, sheet, shelves, free_rects, used_rects, placed, remain, best>>

Init == InitOf(MaxBin)
Add == AddOf(MaxSprites)
StackAdd == StackAddOf(MaxSprites)

Next ==
    \/ Clear
    \/ Add
    \/ AddReturn
    \/ ShelfGetBest
    \/ ShelfPlace
    \/ MaxRectsGetBest
    \/ MaxRectsPlace
    \/ StackAdd

Spec == Init /\ [][Next]_vars

\* The same instance and calls with more room and more sprites.
InitWide == InitOf(WideBin)
AddWide == AddOf(WideSprites)
StackAddWide == StackAddOf(WideSprites)

NextWide ==
    \/ Clear
    \/ AddWide
    \/ AddReturn
    \/ ShelfGetBest
    \/ ShelfPlace
    \/ MaxRectsGetBest
    \/ MaxRectsPlace
    \/ StackAddWide

SpecWide == InitWide /\ [][NextWide]_vars

(***************************************************************************)
(* Properties                                                              *)
(***************************************************************************)

Driven == kind \in {"shelf", "maxrects"}
Returned == Driven /\ pc = "ret"
Ids(seq) == [k \in 1..Len(seq) |-> seq[k].id]
Increasing(seq) == \A i, j \in 1..Len(seq) : i < j => seq[i] < seq[j]
Disjoint(seq) == \A i, j \in 1..Len(seq) : i < j => ~intersects(seq[i], seq[j])
\* The running add was called on an empty bin
FromEmpty == Len(done) = Len(placed)

\* C1: on a ShelfLayout no two placed sprites intersect, whatever calls of
\* add were made and whether or not rotation is allowed.
C1_ShelfDisjoint == kind = "shelf" => Disjoint(done)

\* C2: on a MaxRectsLayout no two placed sprites intersect, whatever calls
\* of add were made and whether or not rotation is allowed.
C2_MaxRectsDisjoint == kind = "maxrects" => Disjoint(done)

\* C3: every sprite that Layout.add placed (Shelf or MaxRects) lies inside
\* the bin in its final orientation.
C3_InsideBin == Driven => \A k \in 1..Len(done) : check(done[k])

\* C4: when add returns, placed and remaining partition the input: every
\* input sprite is in exactly one of them exactly once and nothing else is.
C4_Partition ==
    Returned =>
        /\ Len(placed) + Len(remain) = Len(input)
        /\ \A k \in 1..Len(input) :
               Cardinality({i \in 1..Len(placed) : placed[i].id = k})
               + Cardinality({i \in 1..Len(remain) : remain[i].id = k}) = 1
        /\ \A i \in 1..Len(placed) :
               /\ placed[i].id \in 1..Len(input)
               /\ placed[i].iw = input[placed[i].id].iw
               /\ placed[i].ih = input[placed[i].id].ih
        /\ \A i \in 1..Len(remain) :
               /\ remain[i].id \in 1..Len(input)
               /\ remain[i].iw = input[remain[i].id].iw
               /\ remain[i].ih = input[remain[i].id].ih

\* C4 witness: add returned some sprites placed and some remaining.
C4_Witness == Returned /\ placed # <<>> /\ remain # <<>>

\* C5 as claimed: when add returns, placed and remaining both list their
\* sprites in the input's relative order.
C5_BothInInputOrder == Returned => Increasing(Ids(placed)) /\ Increasing(Ids(remain))

\* C5 amended: throughout add, and so when it returns, remaining lists its
\* sprites in the input's relative order; placed lists the sprites in the
\* order in which they were placed.
C5_RemainInInputOrder ==
    Driven =>
        /\ Increasing(Ids(remain))
        /\ placed = SubSeq(done, Len(done) - Len(placed) + 1, Len(done))

\* C5 witness: a sprite was taken out of the list from before two others.
C5_Witness ==
    /\ Driven
    /\ placed # <<>>
    /\ Len(remain) >= 2
    /\ placed[Len(placed)].id < remain[1].id

\* C6: without allow_rotate no placed sprite (Shelf, Stack or MaxRects) is
\* rotated, and each keeps the width and height it was passed with.
C6_NoRotation ==
    ~rotate => \A k \in 1..Len(done) :
                   /\ ~done[k].rotated
                   /\ done[k].w = done[k].iw
                   /\ done[k].h = done[k].ih

\* C6 witness: without allow_rotate two sprites are placed, one of them wider
\* than tall and one taller than wide.
C6_Witness ==
    /\ ~rotate
    /\ \E i, j \in 1..Len(done) : done[i].w > done[i].h /\ done[j].h > done[j].w

\* C7: with allow_rotate, add of a single sprite on an empty layout places
\* the sprite rotated at (0,0) when it exceeds the bin as given and fits
\* the bin rotated, on a ShelfLayout as on a MaxRectsLayout.
C7_RotatedToFit ==
    (/\ Returned /\ rotate /\ FromEmpty /\ Len(input) = 1
     /\ (input[1].w > maxw \/ input[1].h > maxh)
     /\ input[1].h <= maxw /\ input[1].w <= maxh)
    => /\ remain = <<>>
       /\ placed = <<[input[1] EXCEPT !.w = input[1].h, !.h = input[1].w,
                                      !.rotated = TRUE]>>

S2Sheet ==
    /\ kind = "maxrects" /\ maxw = 10 /\ maxh = 10 /\ ~rotate
    /\ [k \in 1..Len(input) |-> <<input[k].iw, input[k].ih>>]
           = <<<<6, 6>>, <<4, 4>>, <<4, 6>>, <<6, 4>>>>
    /\ FromEmpty
Spots(seq) == {<<seq[k].id, seq[k].w, seq[k].h, seq[k].x, seq[k].y>> : k \in 1..Len(seq)}

\* C8 as claimed: scenario S2 ends with 6x6 at (0,0), 4x4 at (6,0), 4x6 at
\* (6,4) and 6x4 at (0,6).
C8_S2AsClaimed ==
    (Returned /\ S2Sheet) =>
        /\ remain = <<>>
        /\ Spots(placed) = {<<1, 6, 6, 0, 0>>, <<2, 4, 4, 6, 0>>,
                            <<3, 4, 6, 6, 4>>, <<4, 6, 4, 0, 6>>}

\* C8 amended: scenario S2 places all four sprites and tiles the bin, with
\* 6x6 at (0,0), 4x6 at (6,0), 6x4 at (0,6) and 4x4 at (6,6).
C8_S2Placement ==
    (Returned /\ S2Sheet) =>
        /\ remain = <<>>
        /\ Spots(placed) = {<<1, 6, 6, 0, 0>>, <<3, 4, 6, 6, 0>>,
                            <<4, 6, 4, 0, 6>>, <<2, 4, 4, 6, 6>>}
        /\ free_rects = <<>>

\* C8 witness: add returned on scenario S2.
C8_Witness == Returned /\ S2Sheet /\ Len(placed) = 4

\* The rect of w by h at (x, y) lies in the bin and meets no placed sprite
Room(w, h, x, y) ==
    /\ check(Rect(w, h, x, y))
    /\ \A k \in 1..Len(done) : ~intersects(Rect(w, h, x, y), done[k])

\* C9: when add returns on a MaxRectsLayout with sprites remaining, the bin
\* has no room for any of them in any allowed orientation.
C9_NothingFits ==
    (Returned /\ kind = "maxrects") =>
        \A k \in 1..Len(remain) : \A x \in 0..maxw, y \in 0..maxh :
            /\ ~Room(remain[k].w, remain[k].h, x, y)
            /\ rotate => ~Room(remain[k].h, remain[k].w, x, y)

\* C10: a place that returns false leaves free_rects as it was, and add
\* returns at once with placed as it was and every sprite not yet placed,
\* the rejected one among them, in remaining.
C10_PlaceFailure ==
    [][(pc = "place" /\ kind = "maxrects" /\ result' = "False") =>
          /\ free_rects' = free_rects
          /\ placed' = placed
          /\ Ids(remain') = Ids(remain)
          /\ done' = done
          /\ pc' = "ret"]_vars

\* C10 witness: add returned because place returned false, after another
\* sprite had been placed.
C10_Witness == Returned /\ result = "False" /\ remain # <<>> /\ done # <<>>

\* C11: after clear() the layout is in the state of a freshly constructed
\* instance (Shelf: size 0 and no shelves; MaxRects: the whole bin as the
\* one free rect), whatever add calls came before; add reads nothing else
\* of the instance, so it then places as on a fresh instance.
C11_ClearIsFresh ==
    (Driven /\ pc = "idle") =>
        /\ size = 0
        /\ shelves = <<>>
        /\ free_rects = <<Rect(maxw, maxh, 0, 0)>>
        /\ used_rects = <<>>

\* C11 witness: clear() was called after sprites had been handed to add.
C11_Witness == Driven /\ pc = "idle" /\ count > 0

\* C12: StackLayout.add never raises; it returns True or False.
C12_StackNeverRaises == kind = "stack" => result # "NameError"

\* The unit cells of the bin, and whether a rect covers one
Cells == (0..(maxw - 1)) \X (0..(maxh - 1))
Covers(r, c) == r.x <= c[1] /\ c[1] < r.x + r.w /\ r.y <= c[2] /\ c[2] < r.y + r.h

\* C13: in MaxRectsLayout the free rects cover every cell of the bin that no
\* placed sprite covers: place loses no free space.
C13_NoLostSpace ==
    kind = "maxrects" =>
        \A c \in Cells :
            \/ \E k \in 1..Len(done) : Covers(done[k], c)
            \/ \E i \in 1..Len(free_rects) : Covers(free_rects[i], c)

\* C13 witness: two sprites were placed, the free list was split and pruned
\* and still holds free cells.
C13_Witness ==
    /\ kind = "maxrects" /\ Len(done) = 2 /\ Len(free_rects) >= 2
    /\ \E c \in Cells : \A k \in 1..Len(done) : ~Covers(done[k], c)

\* The free list after the 5x5 sprite went to (0, 0) of the 10x10 bin
S6Placed ==
    /\ kind = "maxrects" /\ maxw = 10 /\ maxh = 10 /\ ~rotate
    /\ Len(done) = 1 /\ done[1].w = 5 /\ done[1].h = 5 /\ done[1].x = 0 /\ done[1].y = 0

\* C14: in MaxRectsLayout no entry of free_rects is contained in another
\* entry, so no rect is listed twice; after the 5x5 sprite at (0, 0) of the
\* 10x10 bin the list is exactly (5, 0, 5, 10) and (0, 5, 10, 5).
C14_Pruned ==
    kind = "maxrects" =>
        /\ \A i, j \in 1..Len(free_rects) :
               i # j => ~contains(free_rects[i], free_rects[j])
        /\ S6Placed =>
               /\ Len(free_rects) = 2
               /\ {free_rects[i] : i \in 1..Len(free_rects)}
                      = {Rect(5, 10, 5, 0), Rect(10, 5, 0, 5)}

\* C14 witness: the 5x5 sprite was placed at (0, 0) of the 10x10 bin.
C14_Witness == S6Placed /\ Len(free_rects) = 2

\* C15: in MaxRectsLayout every free rect lies inside the bin, has positive
\* width and height, and intersects no placed sprite.
C15_FreeIsFree ==
    kind = "maxrects" =>
        \A i \in 1..Len(free_rects) :
            LET f == free_rects[i]
            IN  /\ f.w > 0 /\ f.h > 0
                /\ f.x >= 0 /\ f.y >= 0
                /\ f.x + f.w <= maxw /\ f.y + f.h <= maxh
                /\ \A k \in 1..Len(done) : ~intersects(f, done[k])

\* C15 witness: a sprite was placed and free rects are left next to it.
C15_Witness == kind = "maxrects" /\ Len(done) = 2 /\ Len(free_rects) >= 1 /\ result = "True"

\* C16: in MaxRectsLayout used_rects holds exactly the sprites place returned
\* True for since the last clear.
C16_UsedRects == kind = "maxrects" => used_rects = done

\* The orientations a sprite may take, and its fits: the scores (short side
\* left over, long side left over) of the sprite in every free rect that
\* holds it in one of them, with the corner of that free rect
Orients(s) == {<<s.w, s.h>>} \cup (IF rotate THEN {<<s.h, s.w>>} ELSE {})
Fits(s) ==
    UNION { { [ssf |-> IF free_rects[i].w - o[1] < free_rects[i].h - o[2]
                       THEN free_rects[i].w - o[1] ELSE free_rects[i].h - o[2],
               lsf |-> IF free_rects[i].w - o[1] < free_rects[i].h - o[2]
                       THEN free_rects[i].h - o[2] ELSE free_rects[i].w - o[1],
               x |-> free_rects[i].x, y |-> free_rects[i].y] :
              o \in {q \in Orients(s) : q[1] <= free_rects[i].w /\ q[2] <= free_rects[i].h} } :
            i \in 1..Len(free_rects) }
Less(a, b) == a.ssf < b.ssf \/ (a.ssf = b.ssf /\ a.lsf < b.lsf)

\* C17: MaxRectsLayout.get_best returns None exactly when no remaining sprite
\* fits a free rect in an allowed orientation; otherwise the sprite it
\* returns has the lexicographically least (ssf, lsf) over all free rects and
\* orientations, the lowest index among the sprites with that score, and the
\* position is the corner of a free rect where the sprite has that score.
C17_GetBest ==
    [][(kind = "maxrects" /\ pc = "loop" /\ remain # <<>>) =>
          /\ best'.i = 0 <=> \A k \in 1..Len(remain) : Fits(remain[k]) = {}
          /\ best'.i # 0 =>
                 \E c \in Fits(remain[best'.i]) :
                     /\ c.x = best'.pos.x /\ c.y = best'.pos.y
                     /\ \A k \in 1..Len(remain) : \A d \in Fits(remain[k]) :
                            /\ ~Less(d, c)
                            /\ k < best'.i => Less(c, d)]_vars

\* C17 witness: get_best took the second of two sprites, with rotation
\* allowed, because it leaves less room than the first.
C17_Witness ==
    /\ kind = "maxrects" /\ pc = "place" /\ rotate
    /\ Len(remain) = 2 /\ best.i = 2

\* C18: in ShelfLayout the first shelf starts at 0 and every later shelf
\* starts where the shelf before it ends (its start plus its max), so the
\* starts increase strictly and no shelf grows into the shelf after it.
C18_ShelfStarts ==
    kind = "shelf" =>
        /\ shelves # <<>> => shelves[1].start = 0
        /\ \A k \in 1..(Len(shelves) - 1) :
               /\ shelves[k].start < shelves[k + 1].start
               /\ shelves[k + 1].start = shelves[k].start + shelves[k].max

\* C19: get_best changes neither the layout nor a position: ShelfLayout's
\* size and shelves and MaxRectsLayout's free_rects are the same after it,
\* and every sprite of the list has the x and y it had before.
C19_GetBestPure ==
    [][(Driven /\ pc = "loop" /\ remain # <<>>) =>
          /\ size' = size /\ shelves' = shelves /\ free_rects' = free_rects
          /\ Len(remain') = Len(remain)
          /\ \A k \in 1..Len(remain) :
                 /\ remain'[k].id = remain[k].id
                 /\ remain'[k].x = remain[k].x /\ remain'[k].y = remain[k].y]_vars

\* C19 witness: get_best ran on a layout that holds a sprite already and
\* rotated a sprite of the list, which is still at the position it came with.
C19_Witness ==
    /\ Driven /\ pc = "place" /\ done # <<>>
    /\ \E k \in 1..Len(remain) : remain[k].rotated /\ remain[k].x = 0 /\ remain[k].y = 0

\* C20: the rotation get_best applies while scoring is undone: when add
\* returns, every sprite of remaining has the width, the height and the
\* rotated flag it was passed with.
C20_RemainAsPassed ==
    Returned =>
        \A k \in 1..Len(remain) :
            /\ remain[k].w = remain[k].iw
            /\ remain[k].h = remain[k].ih
            /\ ~remain[k].rotated

====
